---- MODULE Spec2Model ----
(***************************************************************************)
(* Model of GestureControlApp (src/gesture_control_app.py): the frame      *)
(* loop, the single-hand and two-hand gesture resolvers, the tray thread   *)
(* and the teardown.                                                       *)
(*                                                                         *)
(* Coordinates are integers on the grid 0..GridMax; the integer v stands   *)
(* for the normalised coordinate v / GridMax.  Time is in ticks of 0.25 s. *)
(***************************************************************************)
EXTENDS Integers, Sequences, FiniteSets, TLC

VARIABLES
    pc,                 \* position of the main thread in start()/main_loop()
    running,            \* self.running
    paused,             \* self.paused
    selection_active,   \* self.selection_active (dragActive)
    last_click_time,    \* self.last_click_time (lastActionTime), in ticks
    camOpen,            \* self.cam.isOpened()
    released,           \* cam.release(), hands.close(), destroyAllWindows() done
    now,                \* time.time(), in ticks
    trayPc,             \* position of the tray (control-surface) thread
    trayRead,           \* value of self.paused read by the tray's toggle_pause
    mainRead,           \* value of self.paused read by the loop's toggle_pause
    togglesOdd,         \* history: the number of completed toggle_pause calls is odd
    exitSignalled,      \* history: exit_app has been invoked
    held,               \* history: mouse-down commands issued minus mouse-up commands issued
    frame,              \* history: << hands >> of the frame this iteration processed, else << >>
    cmds,               \* history: the OS input commands issued in this iteration / by cleanup
    faulted,            \* history: a fault was raised while processing a frame
    openAt,             \* history: time of the latest processed frame if it was a
                        \*          single fully-open hand, else -1
    openRun,            \* history: how many single fully-open-hand frames, each at
                        \*          least CLICK_COOLDOWN after the one before, were
                        \*          processed in a row up to the latest processed frame
    lastFired,          \* history: time of the latest click that fired, else -1
    skipped,            \* history: why this iteration processed no frame:
                        \*          "paused", "failed" (capture failed), else "no"
    failures,           \* history: capture failures since the last captured frame
    probe,              \* classifier check: the hand handed to the classifiers
    verdict             \* classifier check: what the classifiers returned, in order

vars == << pc, running, paused, selection_active, last_click_time, camOpen,
           released, now, trayPc, trayRead, mainRead, togglesOdd, exitSignalled,
           held, frame, cmds, faulted, openAt, openRun, lastFired,
           skipped, failures, probe, verdict >>

-----------------------------------------------------------------------------
(* Bounds *)

GridMax == 6            \* coordinates are 0..GridMax, standing for 0 .. 1
MaxTime == 4            \* the clock stops advancing at MaxTime ticks
ProbeMax == 2           \* classifier check: landmark heights are 0..ProbeMax

(* Program constants *)

SCROLL_SPEED == 50      \* self.SCROLL_SPEED
CLICK_COOLDOWN == 2     \* self.CLICK_COOLDOWN = 0.5 s, in ticks of 0.25 s
FAIL_SLEEP == 2         \* time.sleep(0.5) after a failed capture, in ticks
PINCH_INV == 20         \* pinch threshold 0.05 = 1 / 20
CURSOR_OFFSET == 30     \* the + 30 pixels of cursor_y
screen_width == 1920    \* pyautogui.size()
screen_height == 1080

Fingers == {"thumb", "index", "middle", "ring", "little"}

-----------------------------------------------------------------------------
(* Hands: the landmarks the resolvers read.  h.tip[f] is the tip landmark   *)
(* of finger f, h.pip[f] its PIP (thumb: IP) landmark.                      *)

\* A hand whose joints are at height p, whose tips are at x = p - 1 (the
\* thumb's at p - 1 + tdx) and at height p + off[f].
MkHand(p, off, tdx) ==
    [ tip |-> [f \in Fingers |->
                 [x |-> IF f = "thumb" THEN p - 1 + tdx ELSE p - 1,
                  y |-> p + off[f]]],
      pip |-> [f \in Fingers |-> [y |-> p]] ]

Positions == {3, 4, 5}

Open == [f \in Fingers |-> -1]

\* One hand in view: every extended/flexed vector, with and without the
\* thumb tip on the middle tip, at every position.
SingleHands ==
    { MkHand(p, off, tdx) : p \in Positions, off \in [Fingers -> {-1, 1}], tdx \in {0, 1} }

\* Two hands in view.  The first hand: open, or open but for the little
\* finger.  The second hand: index and middle above, level with or below
\* their joints, ring and little (moving together) likewise.
FirstHands ==
    { MkHand(4, off, 1) : off \in {Open, [Open EXCEPT !["little"] = 1]} }

SecondHands ==
    { MkHand(p, [f \in Fingers |->
                   CASE f = "thumb" -> 1
                     [] f = "index" -> i
                     [] f = "middle" -> m
                     [] OTHER -> r], 1) :
        p \in {3, 4}, i \in {-1, 0, 1}, m \in {-1, 0, 1}, r \in {-1, 0, 1} }

Frames ==
    { << >> } \cup { << h >> : h \in SingleHands }
              \cup { << h1, h2 >> : h1 \in FirstHands, h2 \in SecondHands }

-----------------------------------------------------------------------------
(* OS input commands (pyautogui) *)

Cmd(op, x, y, arg) == [op |-> op, x |-> x, y |-> y, arg |-> arg]

MoveTo(x, y) == Cmd("moveTo", x, y, "")
MouseDown == Cmd("mouseDown", 0, 0, "")
MouseUp == Cmd("mouseUp", 0, 0, "")
Click(button) == Cmd("click", 0, 0, button)
Scroll(amount) == Cmd("scroll", 0, amount, "")
HScroll(amount) == Cmd("hscroll", amount, 0, "")
KeyDown(key) == Cmd("keyDown", 0, 0, key)
Press(key) == Cmd("press", 0, 0, key)
KeyUp(key) == Cmd("keyUp", 0, 0, key)

\* An effect: one OS command together with the session state left by the
\* assignments that follow it.  st = [sel |-> selection_active,
\* last |-> last_click_time].
Eff(cmd, st) == [cmd |-> cmd, st |-> st]

\* int(v * pixels + offset) for the grid coordinate v
\* a mapping that drops the pixel offset
ToPixelNoOffset(v, pixels, offset) == (v * pixels) \div GridMax

ToPixel(v, pixels, offset) == (v * pixels + offset * GridMax) \div GridMax

-----------------------------------------------------------------------------
(* Finger-state classifier: extract_landmarks *)

\* a classifier that counts a tip level with its joint as extended
ExtendedLax(h, f) == h.tip[f].y <= h.pip[f].y

Extended(h, f) == h.tip[f].y < h.pip[f].y

\* self.distance ** 2, in grid units
Distance2(h) ==
    (h.tip["thumb"].x - h.tip["middle"].x) * (h.tip["thumb"].x - h.tip["middle"].x)
    + (h.tip["thumb"].y - h.tip["middle"].y) * (h.tip["thumb"].y - h.tip["middle"].y)

\* self.distance < 0.05
Pinch(h) == PINCH_INV * PINCH_INV * Distance2(h) < GridMax * GridMax

-----------------------------------------------------------------------------
(* Single-hand resolver: process_single_hand, at time t *)

\* a click with the debounce gate dropped
ClickAlways(button, st, t) == << Eff(Click(button), [st EXCEPT !.last = t]) >>

\* a click gated by > instead of >=
ClickIfCooledStrict(button, st, t) ==
    IF t - st.last > CLICK_COOLDOWN
    THEN << Eff(Click(button), [st EXCEPT !.last = t]) >>
    ELSE << >>

\* current_time = time.time(); if current_time - self.last_click_time >=
\* self.CLICK_COOLDOWN: click, self.last_click_time = current_time
ClickIfCooled(button, st, t) ==
    IF t - st.last >= CLICK_COOLDOWN
    THEN << Eff(Click(button), [st EXCEPT !.last = t]) >>
    ELSE << >>

AllExtended(h) == \A f \in Fingers : Extended(h, f)

\* the two click branches with the pinch test first
PinchBeforeOpenHand(h, st, t) ==
    IF Pinch(h) THEN ClickIfCooled("right", st, t)
    ELSE IF AllExtended(h) THEN ClickIfCooled("left", st, t)
    ELSE << >>

\* the last two branches of process_single_hand: elif all([...]) / elif
\* self.distance < 0.05
click_branches(h, st, t) ==
    IF Extended(h, "thumb") /\ Extended(h, "index") /\ Extended(h, "middle")
       /\ Extended(h, "ring") /\ Extended(h, "little")
    THEN ClickIfCooled("left", st, t)
    ELSE IF Pinch(h)
    THEN ClickIfCooled("right", st, t)
    ELSE << >>

process_single_hand(h, st, t) ==
    LET index == Extended(h, "index")
        middle == Extended(h, "middle")
        ring == Extended(h, "ring")
        little == Extended(h, "little")
    IN  IF index /\ ~(middle \/ ring \/ little)
        THEN << Eff(MoveTo(ToPixel(h.tip["index"].x, screen_width, 0),
                           ToPixel(h.tip["index"].y, screen_height, CURSOR_OFFSET)), st) >>
        ELSE IF index /\ middle /\ ~(ring \/ little)
        THEN IF h.tip["index"].y + h.tip["middle"].y > GridMax
             THEN << Eff(Scroll(-SCROLL_SPEED), st) >>
             ELSE << Eff(Scroll(SCROLL_SPEED), st) >>
        ELSE IF index /\ little /\ ~(middle \/ ring)
        THEN IF h.tip["index"].x + h.tip["little"].x > GridMax
             THEN << Eff(HScroll(SCROLL_SPEED), st) >>
             ELSE << Eff(HScroll(-SCROLL_SPEED), st) >>
        ELSE click_branches(h, st, t)

-----------------------------------------------------------------------------
(* Two-hand resolver: process_two_hands *)

hand1_all_extended(hand1) ==
    /\ hand1.tip["thumb"].y < hand1.pip["thumb"].y
    /\ hand1.tip["index"].y < hand1.pip["index"].y
    /\ hand1.tip["middle"].y < hand1.pip["middle"].y
    /\ hand1.tip["ring"].y < hand1.pip["ring"].y
    /\ hand1.tip["little"].y < hand1.pip["little"].y

hand2_index_only(hand2) ==
    /\ hand2.tip["index"].y < hand2.pip["index"].y
    /\ hand2.tip["middle"].y > hand2.pip["middle"].y
    /\ hand2.tip["ring"].y > hand2.pip["ring"].y
    /\ hand2.tip["little"].y > hand2.pip["little"].y

hand2_index_middle(hand2) ==
    /\ hand2.tip["index"].y < hand2.pip["index"].y
    /\ hand2.tip["middle"].y < hand2.pip["middle"].y
    /\ hand2.tip["ring"].y > hand2.pip["ring"].y
    /\ hand2.tip["little"].y > hand2.pip["little"].y

ZoomChord(key, st) ==
    << Eff(KeyDown("ctrl"), st), Eff(Press(key), st), Eff(KeyUp("ctrl"), st) >>

\* a release that leaves self.selection_active set
ReleaseKeepsFlag(st) == << Eff(MouseUp, st) >>

\* elif self.selection_active: mouseUp(); self.selection_active = False
ReleaseDrag(st) == << Eff(MouseUp, [st EXCEPT !.sel = FALSE]) >>

\* if not self.selection_active: moveTo(start_x, start_y); mouseDown();
\* self.selection_active = True
StartDrag(hand1, st) ==
    IF ~st.sel
    THEN << Eff(MoveTo(ToPixel(hand1.tip["index"].x, screen_width, 0),
                       ToPixel(hand1.tip["index"].y, screen_height, 0)), st),
            Eff(MouseDown, [st EXCEPT !.sel = TRUE]) >>
    ELSE << >>

process_two_hands(hand1, hand2, st) ==
    IF hand1_all_extended(hand1) /\ hand2_index_only(hand2)
    THEN StartDrag(hand1, st)
         \o << Eff(MoveTo(ToPixel(hand2.tip["index"].x, screen_width, 0),
                          ToPixel(hand2.tip["index"].y, screen_height, 0)),
                   [st EXCEPT !.sel = TRUE]) >>
    ELSE IF st.sel
    THEN ReleaseDrag(st)
    ELSE IF hand1_all_extended(hand1) /\ hand2_index_middle(hand2)
    THEN IF hand2.tip["index"].y + hand2.tip["middle"].y < GridMax
         THEN ZoomChord("+", st)
         ELSE ZoomChord("-", st)
    ELSE << >>

-----------------------------------------------------------------------------
(* process_frame: the effects of one frame, in order *)

\* the session state after the effects effs, starting from st
After(effs, st) == IF effs = << >> THEN st ELSE effs[Len(effs)].st

\* the body of "for hand_landmarks in results.multi_hand_landmarks" for one hand
ForHand(hands, st, t) ==
    IF Len(hands) = 1 THEN process_single_hand(hands[1], st, t)
    ELSE IF Len(hands) = 2 THEN process_two_hands(hands[1], hands[2], st)
    ELSE << >>

RECURSIVE ForEachHand(_, _, _, _)
ForEachHand(k, hands, st, t) ==
    IF k = 0 THEN << >>
    ELSE LET first == ForHand(hands, st, t)
         IN  first \o ForEachHand(k - 1, hands, After(first, st), t)

\* a frame handler that ends the drag when the detector returns no hands
process_frame_releasing(hands, st, t) ==
    IF Len(hands) = 0 /\ st.sel THEN ReleaseDrag(st)
    ELSE ForEachHand(Len(hands), hands, st, t)

process_frame(hands, st, t) == ForEachHand(Len(hands), hands, st, t)

Commands(effs) == [i \in 1..Len(effs) |-> effs[i].cmd]

Count(op, cs) == Cardinality({i \in 1..Len(cs) : cs[i].op = op})

\* mouse-down commands minus mouse-up commands among cs
Balance(cs) == Count("mouseDown", cs) - Count("mouseUp", cs)

-----------------------------------------------------------------------------
(* Initial state: after GestureControlApp.__init__, before start() *)

Init ==
    /\ pc = "start"
    /\ running = FALSE
    /\ paused = FALSE
    /\ selection_active = FALSE
    /\ now = 0
    /\ last_click_time = 0
    /\ camOpen = FALSE
    /\ released = FALSE
    /\ trayPc = "none"
    /\ trayRead = FALSE
    /\ mainRead = FALSE
    /\ togglesOdd = FALSE
    /\ exitSignalled = FALSE
    /\ held = 0
    /\ frame = << >>
    /\ cmds = << >>
    /\ faulted = FALSE
    /\ openAt = -1
    /\ openRun = 0
    /\ lastFired = -1
    /\ skipped = "no"
    /\ failures = 0
    /\ probe = << >>
    /\ verdict = << >>

-----------------------------------------------------------------------------
(* The main thread: start() *)

\* self.cam = cv2.VideoCapture(0): the device opens or does not
OpenCam ==
    /\ pc = "start"
    /\ \E ok \in BOOLEAN : camOpen' = ok
    /\ pc' = "start_tray"
    /\ UNCHANGED << running, paused, selection_active, last_click_time, released,
                    now, trayPc, trayRead, mainRead, togglesOdd, exitSignalled,
                    held, frame, cmds, faulted, openAt, openRun,
                    lastFired >>
    /\ UNCHANGED << skipped, failures, probe, verdict >>

\* threading.Thread(target=self.create_tray_icon, daemon=True).start()
StartTray ==
    /\ pc = "start_tray"
    /\ trayPc' = "menu"
    /\ pc' = "set_running"
    /\ UNCHANGED << running, paused, selection_active, last_click_time, camOpen,
                    released, now, trayRead, mainRead, togglesOdd, exitSignalled,
                    held, frame, cmds, faulted, openAt, openRun,
                    lastFired >>
    /\ UNCHANGED << skipped, failures, probe, verdict >>

\* self.running = True
SetRunning ==
    /\ pc = "set_running"
    /\ running' = TRUE
    /\ pc' = "loop"
    /\ UNCHANGED << paused, selection_active, last_click_time, camOpen, released,
                    now, trayPc, trayRead, mainRead, togglesOdd, exitSignalled,
                    held, frame, cmds, faulted, openAt, openRun,
                    lastFired >>
    /\ UNCHANGED << skipped, failures, probe, verdict >>

-----------------------------------------------------------------------------
(* The main thread: main_loop() *)

\* while self.running and self.cam.isOpened(): an opened capture may have
\* gone away since the last iteration
LoopCheck ==
    /\ pc = "loop"
    /\ \E open \in {camOpen, FALSE} :
          /\ camOpen' = open
          /\ pc' = IF running /\ open THEN "poll" ELSE "cleanup"
    /\ frame' = << >>
    /\ cmds' = << >>
    /\ UNCHANGED << running, paused, selection_active, last_click_time,
                    released, now, trayPc, trayRead, mainRead, togglesOdd,
                    exitSignalled, held, faulted, openAt, openRun,
                    lastFired >>
    /\ skipped' = "no"
    /\ UNCHANGED << failures, probe, verdict >>

\* key = cv2.waitKey(1) & 0xFF; 'q' breaks, 'p' calls toggle_pause
PollKey ==
    /\ pc = "poll"
    /\ \E key \in {"q", "p", "none"} :
          pc' = CASE key = "q" -> "cleanup"
                  [] key = "p" -> "toggle_read"
                  [] OTHER -> "check_paused"
    /\ UNCHANGED << running, paused, selection_active, last_click_time, camOpen,
                    released, now, trayPc, trayRead, mainRead, togglesOdd,
                    exitSignalled, held, frame, cmds, faulted, openAt, openRun,
                    lastFired >>
    /\ UNCHANGED << skipped, failures, probe, verdict >>

\* toggle_pause called by the loop: the read of self.paused
MainToggleRead ==
    /\ pc = "toggle_read"
    /\ mainRead' = paused
    /\ pc' = "toggle_write"
    /\ UNCHANGED << running, paused, selection_active, last_click_time, camOpen,
                    released, now, trayPc, trayRead, togglesOdd, exitSignalled,
                    held, frame, cmds, faulted, openAt, openRun,
                    lastFired >>
    /\ UNCHANGED << skipped, failures, probe, verdict >>

\* toggle_pause called by the loop: the write of the negation
MainToggleWrite ==
    /\ pc = "toggle_write"
    /\ paused' = ~mainRead
    /\ mainRead' = FALSE
    /\ togglesOdd' = ~togglesOdd
    /\ pc' = "check_paused"
    /\ UNCHANGED << running, selection_active, last_click_time, camOpen, released,
                    now, trayPc, trayRead, exitSignalled, held, frame, cmds,
                    faulted, openAt, openRun,
                    lastFired >>
    /\ UNCHANGED << skipped, failures, probe, verdict >>

\* if self.paused: show the paused screen, sleep, continue
\* a pause test that captures the frame all the same
CheckPausedCaptures ==
    /\ pc = "check_paused"
    /\ pc' = "capture"
    /\ skipped' = IF paused THEN "paused" ELSE skipped
    /\ UNCHANGED << running, paused, selection_active, last_click_time, camOpen,
                    released, now, trayPc, trayRead, mainRead, togglesOdd,
                    exitSignalled, held, frame, cmds, faulted, openAt, openRun,
                    lastFired, failures, probe, verdict >>

CheckPaused ==
    /\ pc = "check_paused"
    /\ pc' = IF paused THEN "loop" ELSE "capture"
    /\ UNCHANGED << running, paused, selection_active, last_click_time, camOpen,
                    released, now, trayPc, trayRead, mainRead, togglesOdd,
                    exitSignalled, held, frame, cmds, faulted, openAt, openRun,
                    lastFired >>
    /\ skipped' = IF paused THEN "paused" ELSE skipped
    /\ UNCHANGED << failures, probe, verdict >>

\* success, image = self.cam.read() fails: sleep 0.5 s and continue
\* a failed read that leaves the loop instead of retrying
CaptureFailBreaks ==
    /\ pc = "capture"
    /\ now + FAIL_SLEEP <= MaxTime
    /\ now' = now + FAIL_SLEEP
    /\ pc' = "cleanup"
    /\ skipped' = "failed"
    /\ failures' = failures + 1
    /\ UNCHANGED << running, paused, selection_active, last_click_time, camOpen,
                    released, trayPc, trayRead, mainRead, togglesOdd,
                    exitSignalled, held, frame, cmds, faulted, openAt, openRun,
                    lastFired, probe, verdict >>

CaptureFail ==
    /\ pc = "capture"
    /\ now + FAIL_SLEEP <= MaxTime
    /\ now' = now + FAIL_SLEEP
    /\ pc' = "loop"
    /\ UNCHANGED << running, paused, selection_active, last_click_time, camOpen,
                    released, trayPc, trayRead, mainRead, togglesOdd,
                    exitSignalled, held, frame, cmds, faulted, openAt, openRun,
                    lastFired >>
    /\ skipped' = "failed"
    /\ failures' = failures + 1
    /\ UNCHANGED << probe, verdict >>

IsOpenHand(hands) == Len(hands) = 1 /\ AllExtended(hands[1])

\* the clicks among the commands cs
Fired(cs) == \E i \in 1..Len(cs) : cs[i].op = "click"

\* The first k effects of the frame become visible: the session state, the
\* commands and the history kept about them.
Apply(effs, k) ==
    LET done == SubSeq(effs, 1, k)
        st == After(done, [sel |-> selection_active, last |-> last_click_time])
    IN  /\ selection_active' = st.sel
        /\ last_click_time' = st.last
        /\ cmds' = Commands(done)
        /\ held' = held + Balance(Commands(done))
        /\ lastFired' = IF Fired(Commands(done)) THEN now ELSE lastFired

\* self.process_frame(image) on the hands the detector returns, to its end
ProcessFrame ==
    /\ pc = "capture"
    /\ \E hands \in Frames :
          LET effs == process_frame(hands, [sel |-> selection_active,
                                            last |-> last_click_time], now)
          IN  /\ Apply(effs, Len(effs))
              /\ frame' = << hands >>
              /\ openAt' = IF IsOpenHand(hands) THEN now ELSE -1
              /\ openRun' = IF ~IsOpenHand(hands) THEN 0
                            ELSE IF openAt >= 0 /\ now - openAt >= CLICK_COOLDOWN
                            THEN openRun + 1
                            ELSE 1
    /\ pc' = "loop"
    /\ UNCHANGED << running, paused, camOpen, released, now, trayPc, trayRead,
                    mainRead, togglesOdd, exitSignalled, faulted >>
    /\ failures' = 0
    /\ UNCHANGED << skipped, probe, verdict >>

\* self.process_frame(image) raises after k of its OS commands: the
\* exception leaves main_loop and start() runs its finally clause
FrameFault ==
    /\ pc = "capture"
    /\ \E hands \in Frames :
          LET effs == process_frame(hands, [sel |-> selection_active,
                                            last |-> last_click_time], now)
          IN  \E k \in 0..Len(effs) : Apply(effs, k)
    /\ faulted' = TRUE
    /\ pc' = "cleanup"
    /\ UNCHANGED << running, paused, camOpen, released, now, trayPc, trayRead,
                    mainRead, togglesOdd, exitSignalled, frame, openAt, openRun >>
    /\ UNCHANGED << skipped, failures, probe, verdict >>

-----------------------------------------------------------------------------
(* cleanup(), run by the finally clause of start() *)

\* a cleanup that never releases the button
CleanupNoRelease(sel) == << >>

\* the commands cleanup issues: if self.selection_active: pyautogui.mouseUp()
cleanup_cmds(sel) == IF sel THEN << MouseUp >> ELSE << >>

Cleanup ==
    /\ pc = "cleanup"
    /\ released' = TRUE
    /\ camOpen' = FALSE
    /\ cmds' = cleanup_cmds(selection_active)
    /\ held' = held + Balance(cleanup_cmds(selection_active))
    /\ selection_active' = FALSE
    /\ frame' = << >>
    /\ pc' = "done"
    /\ UNCHANGED << running, paused, last_click_time, now, trayPc, trayRead,
                    mainRead, togglesOdd, exitSignalled, faulted, openAt, openRun,
                    lastFired >>
    /\ UNCHANGED << skipped, failures, probe, verdict >>

-----------------------------------------------------------------------------
(* The tray thread: the menu callbacks of create_tray_icon *)

TrayAlive == trayPc # "none" /\ trayPc # "stopped" /\ pc # "done"

\* 'Pause/Resume' -> toggle_pause: the read of self.paused
TrayToggleRead ==
    /\ TrayAlive
    /\ trayPc = "menu"
    /\ trayRead' = paused
    /\ trayPc' = "toggle_write"
    /\ UNCHANGED << pc, running, paused, selection_active, last_click_time,
                    camOpen, released, now, mainRead, togglesOdd, exitSignalled,
                    held, frame, cmds, faulted, openAt, openRun,
                    lastFired >>
    /\ UNCHANGED << skipped, failures, probe, verdict >>

\* 'Pause/Resume' -> toggle_pause: the write of the negation
TrayToggleWrite ==
    /\ TrayAlive
    /\ trayPc = "toggle_write"
    /\ paused' = ~trayRead
    /\ trayRead' = FALSE
    /\ togglesOdd' = ~togglesOdd
    /\ trayPc' = "menu"
    /\ UNCHANGED << pc, running, selection_active, last_click_time, camOpen,
                    released, now, mainRead, exitSignalled, held, frame, cmds,
                    faulted, openAt, openRun,
                    lastFired >>
    /\ UNCHANGED << skipped, failures, probe, verdict >>

\* 'Exit' -> exit_app: self.running = False; icon.stop()
TrayExit ==
    /\ TrayAlive
    /\ trayPc = "menu"
    /\ running' = FALSE
    /\ exitSignalled' = TRUE
    /\ trayPc' = "stopped"
    /\ UNCHANGED << pc, paused, selection_active, last_click_time, camOpen,
                    released, now, trayRead, mainRead, togglesOdd, held, frame,
                    cmds, faulted, openAt, openRun,
                    lastFired >>
    /\ UNCHANGED << skipped, failures, probe, verdict >>

-----------------------------------------------------------------------------
(* The environment *)

\* time.time() advances: time passes while cv2.waitKey(1) waits
Tick ==
    /\ pc = "poll"
    /\ now < MaxTime
    /\ now' = now + 1
    /\ UNCHANGED << pc, running, paused, selection_active, last_click_time,
                    camOpen, released, trayPc, trayRead, mainRead, togglesOdd,
                    exitSignalled, held, frame, cmds, faulted, openAt, openRun,
                    lastFired >>
    /\ UNCHANGED << skipped, failures, probe, verdict >>

Next ==
    \/ OpenCam \/ StartTray \/ SetRunning
    \/ LoopCheck \/ PollKey \/ MainToggleRead \/ MainToggleWrite \/ CheckPaused
    \/ CaptureFail \/ ProcessFrame \/ FrameFault
    \/ Cleanup
    \/ TrayToggleRead \/ TrayToggleWrite \/ TrayExit
    \/ Tick

Spec == Init /\ [][Next]_vars

-----------------------------------------------------------------------------
(* Vocabulary of the properties *)

\* the step is a frame processed to its end
FrameStep == pc = "capture" /\ pc' = "loop" /\ Len(frame') = 1

\* the state is the one left by a frame processed to its end
FrameSeen == Len(frame) = 1

\* strictly flexed: the tip is below its joint
Flexed(h, f) == h.tip[f].y > h.pip[f].y

\* the drag pose of the Finger-State Classifier: hand1 all five extended,
\* hand2 index extended and middle, ring, little not extended
QualifyingPose(hands) ==
    /\ Len(hands) = 2
    /\ AllExtended(hands[1])
    /\ Extended(hands[2], "index")
    /\ ~Extended(hands[2], "middle")
    /\ ~Extended(hands[2], "ring")
    /\ ~Extended(hands[2], "little")

\* the zoom pose, with ring and little strictly flexed: hand1 all five
\* extended, hand2 index and middle extended only
ZoomPose(hands) ==
    /\ Len(hands) = 2
    /\ AllExtended(hands[1])
    /\ Extended(hands[2], "index")
    /\ Extended(hands[2], "middle")
    /\ Flexed(hands[2], "ring")
    /\ Flexed(hands[2], "little")

InLoop == pc \in {"loop", "poll", "toggle_read", "toggle_write", "check_paused", "capture"}

-----------------------------------------------------------------------------
(* C1 - Drag release on pose break.  Whenever a frame is processed while    *)
(* selection_active is true and the frame lacks the qualifying pose, with   *)
(* zero, one or two hands in it, exactly one mouse-up is issued in that     *)
(* frame and selection_active is false afterwards.                          *)
C1_DragReleaseOnPoseBreak ==
    [][ (FrameStep /\ selection_active /\ ~QualifyingPose(frame'[1]))
        => (Count("mouseUp", cmds') = 1 /\ ~selection_active') ]_vars

(* C2 - Forced release on every exit path.  The frame loop is left only to  *)
(* cleanup (quit key, running cleared, capture not open, fault in a frame); *)
(* cleanup releases the resources, issues exactly one mouse-up if           *)
(* selection_active was true and none otherwise, and leaves                 *)
(* selection_active false with no mouse-down unmatched.                     *)
C2_ForcedReleaseOnExit ==
    [][ /\ (InLoop /\ ~InLoop') => pc' = "cleanup"
        /\ (pc = "cleanup" /\ pc' # "cleanup")
              => /\ pc' = "done"
                 /\ released'
                 /\ Count("mouseUp", cmds') = (IF selection_active THEN 1 ELSE 0)
                 /\ ~selection_active'
                 /\ held' = 0 ]_vars

\* a run that ended by a fault with the button held, released by cleanup
C2_Witness == pc = "done" /\ faulted /\ cmds = << MouseUp >> /\ held = 0

(* C3 - Mouse-down/mouse-up matching.  In every reachable state the number  *)
(* of mouse-downs issued minus the number of mouse-ups issued is 1 when     *)
(* selection_active is true and 0 when it is false.                         *)
C3_DownUpMatching == held = (IF selection_active THEN 1 ELSE 0)

\* a drag started, then released by a two-hand frame, after a pause toggle
C3_Witness ==
    /\ FrameSeen /\ Len(frame[1]) = 2
    /\ Count("mouseUp", cmds) = 1
    /\ ~selection_active /\ held = 0
    /\ togglesOdd

(* C4 - Two-hand precedence, one decision per frame.  A two-hand frame      *)
(* yields one decision, by the precedence drag > release > zoom > none; in  *)
(* the case the claim singles out, a frame that starts with                 *)
(* selection_active true and shows the zoom pose issues exactly one         *)
(* mouse-up and nothing else, no zoom key chord, and leaves                 *)
(* selection_active false.                                                  *)
C4_OneDecisionPerTwoHandFrame ==
    [][ (FrameStep /\ selection_active /\ ZoomPose(frame'[1]))
        => /\ cmds' = << MouseUp >>
           /\ ~selection_active'
           /\ Count("keyDown", cmds') = 0
           /\ Count("press", cmds') = 0 ]_vars

(* C5 - Click debounce (safety).  A frame issues at most one click; a click *)
(* fires only when at least CLICK_COOLDOWN has passed since the click that  *)
(* fired before it, and sets last_click_time to its own time;               *)
(* last_click_time changes in no step other than one in which a click       *)
(* fires.                                                                   *)
C5_ClickDebounce ==
    [][ /\ (pc = "capture" /\ Fired(cmds'))
              => /\ Count("click", cmds') = 1
                 /\ lastFired >= 0 => now - lastFired >= CLICK_COOLDOWN
                 /\ last_click_time' = now
        /\ last_click_time' # last_click_time
              => (pc = "capture" /\ Fired(cmds')) ]_vars

\* an open-hand click suppressed less than CLICK_COOLDOWN after a click that fired
C5_Witness ==
    /\ FrameSeen /\ IsOpenHand(frame[1])
    /\ cmds = << >>
    /\ lastFired >= 0 /\ now - lastFired < CLICK_COOLDOWN
    /\ last_click_time = lastFired

(* C6 (as stated) - Click debounce (firing).  Every frame of a run of       *)
(* single fully-open-hand frames spaced at least CLICK_COOLDOWN apart, the  *)
(* first one included, fires exactly one left click.                        *)
C6_EveryOpenFrameClicks ==
    [][ (FrameStep /\ openRun' >= 1) => cmds' = << Click("left") >> ]_vars

(* C6 (amended) - Every frame of such a run after its first fires exactly   *)
(* one left click; the first frame fires exactly one left click if at least *)
(* CLICK_COOLDOWN has passed since last_click_time (the construction time   *)
(* or the latest click) and none otherwise.                                 *)
C6_LaterOpenFramesClick ==
    [][ /\ (FrameStep /\ openRun' >= 2) => cmds' = << Click("left") >>
        /\ (FrameStep /\ openRun' = 1)
              => cmds' = (IF now - last_click_time >= CLICK_COOLDOWN
                          THEN << Click("left") >> ELSE << >>) ]_vars

\* the second frame of a run has fired its click, exactly CLICK_COOLDOWN
\* after the first frame did
C6_Witness ==
    /\ FrameSeen /\ openRun = 2
    /\ cmds = << Click("left") >>
    /\ now = 2 * CLICK_COOLDOWN

(* C7 - Single-hand resolution order.  A single-hand frame issues at most   *)
(* one command, that of the first matching branch of: index only -> move,   *)
(* index+middle -> vertical scroll, index+little -> horizontal scroll, all  *)
(* five -> left click or nothing, pinch -> right click or nothing, else     *)
(* nothing.  An all-extended hand never yields a right click, pinched or    *)
(* not, debounced or not.                                                   *)
C7_SingleHandOrder ==
    (FrameSeen /\ Len(frame[1]) = 1) =>
        LET h == frame[1][1]
            index == Extended(h, "index")
            middle == Extended(h, "middle")
            ring == Extended(h, "ring")
            little == Extended(h, "little")
            ops == {cmds[i].op : i \in 1..Len(cmds)}
        IN  /\ Len(cmds) <= 1
            /\ IF index /\ ~middle /\ ~ring /\ ~little THEN ops = {"moveTo"}
               ELSE IF index /\ middle /\ ~ring /\ ~little THEN ops = {"scroll"}
               ELSE IF index /\ little /\ ~middle /\ ~ring THEN ops = {"hscroll"}
               ELSE IF AllExtended(h) THEN cmds \in {<< >>, << Click("left") >>}
               ELSE IF Pinch(h) THEN cmds \in {<< >>, << Click("right") >>}
               ELSE cmds = << >>

\* an all-extended hand with thumb tip on middle tip whose left click was debounced
C7_Witness ==
    /\ FrameSeen /\ IsOpenHand(frame[1])
    /\ Pinch(frame[1][1])
    /\ cmds = << >>

(* C8 - Zoom fires once per qualifying frame.  A two-hand frame processed   *)
(* with selection_active false that shows the zoom pose issues exactly one  *)
(* key chord: ctrl with '+' when hand2's average index/middle tip y is      *)
(* below 0.5, otherwise ctrl with '-'.                                      *)
C8_ZoomOncePerFrame ==
    [][ (FrameStep /\ ~selection_active /\ ZoomPose(frame'[1]))
        => cmds' = (IF frame'[1][2].tip["index"].y + frame'[1][2].tip["middle"].y < GridMax
                    THEN << KeyDown("ctrl"), Press("+"), KeyUp("ctrl") >>
                    ELSE << KeyDown("ctrl"), Press("-"), KeyUp("ctrl") >>) ]_vars

(* C9 - Quit signal leads to shutdown.  Once exit_app has been invoked, at  *)
(* any moment after the tray thread was started, self.running stays false,  *)
(* so that the loop's next test of it ends the loop: the signal is never    *)
(* lost.                                                                    *)
C9_ExitNeverLost == exitSignalled => ~running

(* C10 - Pause flag is race-safe.  Whenever no toggle_pause is between its  *)
(* read and its write, paused differs from its initial value (false)        *)
(* exactly when the number of completed toggles is odd.                     *)
C10_NoLostToggle ==
    (pc # "toggle_write" /\ trayPc # "toggle_write") => (paused <=> togglesOdd)

(* C11 - Scroll direction threshold.  In the index+middle branch the frame  *)
(* scrolls down by 50 exactly when the average y of the two tips is >= 0.5  *)
(* and up by 50 otherwise; in the index+little branch it scrolls right by   *)
(* 50 exactly when the average x of the two tips is >= 0.5 and left by 50   *)
(* otherwise: the value 0.5 itself scrolls down / right.                    *)
C11_ScrollThreshold ==
    (FrameSeen /\ Len(frame[1]) = 1) =>
        LET h == frame[1][1]
            index == Extended(h, "index")
            middle == Extended(h, "middle")
            ring == Extended(h, "ring")
            little == Extended(h, "little")
        IN  /\ (index /\ middle /\ ~ring /\ ~little)
                  => cmds = << IF h.tip["index"].y + h.tip["middle"].y >= GridMax
                               THEN Scroll(-50) ELSE Scroll(50) >>
            /\ (index /\ little /\ ~middle /\ ~ring)
                  => cmds = << IF h.tip["index"].x + h.tip["little"].x >= GridMax
                               THEN HScroll(50) ELSE HScroll(-50) >>

\* the drag pose of the two-hand resolver in the classifier's terms: hand1 has
\* all five fingers extended, hand2 has the index extended and middle, ring
\* and little not extended
DragPose(hands) ==
    /\ Len(hands) = 2
    /\ AllExtended(hands[1])
    /\ Extended(hands[2], "index")
    /\ ~Extended(hands[2], "middle")
    /\ ~Extended(hands[2], "ring")
    /\ ~Extended(hands[2], "little")

\* the move to the index tip of hand h, mapped to screen pixels
MoveToIndexTip(h) ==
    MoveTo((h.tip["index"].x * screen_width) \div GridMax,
           (h.tip["index"].y * screen_height) \div GridMax)

(* C12 - Drag start.  A two-hand frame that shows the drag pose while       *)
(* selection_active is false issues, in this order, a move to hand1's       *)
(* mapped index tip, a mouse-down and then moves to hand2's mapped index    *)
(* tip, nothing else, and leaves selection_active true; a frame that shows  *)
(* the pose while selection_active is true issues moves to hand2's mapped   *)
(* index tip and nothing else, in particular no mouse-down.                 *)
C12_DragStart ==
    [][ (FrameStep /\ DragPose(frame'[1]))
        => LET m1 == MoveToIndexTip(frame'[1][1])
               m2 == MoveToIndexTip(frame'[1][2])
               first == IF selection_active THEN 1 ELSE 3
           IN  /\ selection_active'
               /\ Len(cmds') >= first
               /\ ~selection_active => (cmds'[1] = m1 /\ cmds'[2] = MouseDown)
               /\ \A i \in first..Len(cmds') : cmds'[i] = m2 ]_vars

-----------------------------------------------------------------------------
(* The classifiers on their own: extract_landmarks and the pose tests of    *)
(* process_two_hands applied to every hand of a grid of landmark heights.   *)

\* The hands handed to the classifiers: the four finger joints at one
\* height, every finger tip at any height of the grid, the thumb extended.
ProbeHands ==
    { [ tip |-> [f \in Fingers |->
                   [x |-> 0, y |-> IF f = "thumb" THEN 0 ELSE t[f]]],
        pip |-> [f \in Fingers |-> [y |-> IF f = "thumb" THEN 1 ELSE j]] ] :
      t \in [Fingers \ {"thumb"} -> 0..ProbeMax], j \in 0..ProbeMax }

\* the hand with every finger's tip and joint heights exchanged
SwapHeights(h) ==
    [ tip |-> [f \in Fingers |-> [x |-> h.tip[f].x, y |-> h.pip[f].y]],
      pip |-> [f \in Fingers |-> [y |-> h.tip[f].y]] ]

\* self.thumb_extended .. self.little_extended
extract_landmarks(h) == [f \in Fingers |-> Extended(h, f)]

sessionVars == << running, paused, selection_active, last_click_time, camOpen,
                  released, now, trayPc, trayRead, mainRead, togglesOdd,
                  exitSignalled, held, frame, cmds, faulted, openAt, openRun,
                  lastFired, skipped, failures >>

InitClassifier ==
    /\ pc = "probe"
    /\ probe \in ProbeHands
    /\ verdict = << >>
    /\ running = FALSE
    /\ paused = FALSE
    /\ selection_active = FALSE
    /\ now = 0
    /\ last_click_time = 0
    /\ camOpen = FALSE
    /\ released = FALSE
    /\ trayPc = "none"
    /\ trayRead = FALSE
    /\ mainRead = FALSE
    /\ togglesOdd = FALSE
    /\ exitSignalled = FALSE
    /\ held = 0
    /\ frame = << >>
    /\ cmds = << >>
    /\ faulted = FALSE
    /\ openAt = -1
    /\ openRun = 0
    /\ lastFired = -1
    /\ skipped = "no"
    /\ failures = 0

\* extract_landmarks on the hand
Classify ==
    /\ pc = "probe"
    /\ verdict' = Append(verdict, extract_landmarks(probe))
    /\ pc' = "classified"
    /\ UNCHANGED << probe, sessionVars >>

\* the hand2 pose tests of process_two_hands on the same hand
ResolvePose ==
    /\ pc = "classified"
    /\ verdict' = Append(verdict, [index_only |-> hand2_index_only(probe),
                                   index_middle |-> hand2_index_middle(probe)])
    /\ pc' = "resolved"
    /\ UNCHANGED << probe, sessionVars >>

\* extract_landmarks on the hand with tips and joints exchanged
ClassifySwapped ==
    /\ pc = "resolved"
    /\ verdict' = Append(verdict, extract_landmarks(SwapHeights(probe)))
    /\ pc' = "swapped"
    /\ UNCHANGED << probe, sessionVars >>

NextClassifier == Classify \/ ResolvePose \/ ClassifySwapped

SpecClassifier == InitClassifier /\ [][NextClassifier]_vars

(* C13 - Finger-state monotonicity as claimed: for every finger and every   *)
(* pair of heights, exchanging tip.y and joint.y flips extended.            *)
C13_SwapFlips ==
    pc = "swapped" => \A f \in Fingers : verdict[1][f] = ~verdict[3][f]

(* C13 - Finger-state monotonicity, amended.  extended is decided by the    *)
(* pair (tip.y, joint.y) alone: fingers with the same pair get the same     *)
(* result.  Exchanging two different heights flips the result; when tip.y   *)
(* = joint.y the finger is not extended in either order.                    *)
C13_SwapFlipsUnlessLevel ==
    /\ pc # "probe"
          => \A f, g \in Fingers :
                (probe.tip[f].y = probe.tip[g].y /\ probe.pip[f].y = probe.pip[g].y)
                    => verdict[1][f] = verdict[1][g]
    /\ pc = "swapped"
          => \A f \in Fingers :
                IF probe.tip[f].y = probe.pip[f].y
                THEN ~verdict[1][f] /\ ~verdict[3][f]
                ELSE verdict[1][f] = ~verdict[3][f]

\* both orders classified, for a hand with a level finger, a finger above and
\* a finger below its joint
C13_Witness ==
    /\ pc = "swapped"
    /\ probe.tip["index"].y = probe.pip["index"].y
    /\ probe.tip["middle"].y < probe.pip["middle"].y
    /\ probe.tip["ring"].y > probe.pip["ring"].y
    /\ verdict[1]["middle"] /\ ~verdict[3]["middle"]

(* C14 - Cursor mapping.  A single-hand frame whose index is extended and   *)
(* whose middle, ring and little are flexed issues exactly one command, the *)
(* move to x = floor(index_tip.x * screen_width), y = floor(index_tip.y *   *)
(* screen_height + 30); an index tip at (0.5, 0.5) gives (960, 570).        *)
C14_CursorMapping ==
    (FrameSeen /\ Len(frame[1]) = 1) =>
        LET h == frame[1][1]
            ix == h.tip["index"].x
            iy == h.tip["index"].y
        IN  (/\ Extended(h, "index")
             /\ ~Extended(h, "middle")
             /\ ~Extended(h, "ring")
             /\ ~Extended(h, "little"))
            => /\ Len(cmds) = 1
               /\ cmds[1].op = "moveTo"
               /\ cmds[1].x = (ix * 1920) \div GridMax
               /\ cmds[1].y = ((iy * 1080) \div GridMax) + 30
               /\ (2 * ix = GridMax /\ 2 * iy = GridMax)
                     => cmds[1].x = 960 /\ cmds[1].y = 570

\* the index-only hand with its index tip at (0.5, 0.5) moved the cursor
C14_Witness ==
    /\ FrameSeen /\ Len(frame[1]) = 1
    /\ 2 * frame[1][1].tip["index"].x = GridMax
    /\ 2 * frame[1][1].tip["index"].y = GridMax
    /\ cmds = << MoveTo(960, 570) >>

(* C15 - Frame-acquisition failure is non-fatal.  The step of a failed      *)
(* capture read issues no command, leaves selection_active,                 *)
(* last_click_time, paused, running and the held button unchanged and       *)
(* returns to the loop test; the loop test that follows a failed read goes  *)
(* on to the next key poll whenever running is set and the camera is open,  *)
(* however many reads have failed in a row.                                 *)
C15_CaptureFailureNonFatal ==
    [][ /\ (pc = "capture" /\ failures' = failures + 1)
             => /\ pc' = "loop"
                /\ cmds' = << >> /\ frame' = << >>
                /\ UNCHANGED << selection_active, last_click_time, paused,
                                running, held >>
        /\ (pc = "loop" /\ pc' # "loop" /\ failures > 0 /\ running /\ camOpen')
             => pc' = "poll" ]_vars

\* the loop polls the keys again after two failed reads in a row, the drag
\* that was going on still held
C15_Witness ==
    /\ pc = "poll"
    /\ failures = 2
    /\ selection_active /\ held = 1

(* C16 - Zero hands is the no-gesture state.  A frame in which the detector *)
(* returns no hands issues no command and leaves selection_active,          *)
(* last_click_time and the held button unchanged.                           *)
C16_ZeroHandsNoEffect ==
    [][ (FrameStep /\ frame'[1] = << >>)
        => /\ cmds' = << >>
           /\ UNCHANGED << selection_active, last_click_time, held >> ]_vars

\* a frame without hands was processed in the middle of a drag
C16_Witness ==
    /\ FrameSeen /\ frame[1] = << >>
    /\ selection_active /\ held = 1

(* C17 - Two-hand classification agrees with the Finger-State Classifier.   *)
(* For every hand of the grid, tips level with their joints included, the   *)
(* resolver's index-only test equals index extended and middle, ring,       *)
(* little not extended, and its index+middle test equals index and middle   *)
(* extended and ring, little not extended, extended being what              *)
(* extract_landmarks computed.                                              *)
C17_PoseAgreesWithClassifier ==
    pc \in {"resolved", "swapped"} =>
        LET ext == verdict[1]
        IN  /\ verdict[2].index_only =
                  (ext["index"] /\ ~ext["middle"] /\ ~ext["ring"] /\ ~ext["little"])
            /\ verdict[2].index_middle =
                  (ext["index"] /\ ext["middle"] /\ ~ext["ring"] /\ ~ext["little"])

(* C18 - Pause suspends gesture processing.  The pause test is reached only *)
(* from the key poll of the same iteration (directly or through the toggle  *)
(* the p key runs); when it observes paused set, the iteration returns to   *)
(* the loop test with no frame captured, no command issued and              *)
(* selection_active, last_click_time and the held button unchanged.         *)
C18_PauseSuspends ==
    [][ /\ (pc' = "check_paused" /\ pc # "check_paused")
             => pc \in {"poll", "toggle_write"}
        /\ (pc = "check_paused" /\ pc' # "check_paused" /\ paused)
             => /\ pc' = "loop"
                /\ frame' = << >> /\ cmds' = << >>
                /\ UNCHANGED << selection_active, last_click_time, held >> ]_vars

\* an iteration was skipped on pause in the middle of a drag
C18_Witness ==
    /\ pc = "loop"
    /\ skipped = "paused"
    /\ paused
    /\ selection_active /\ held = 1
    /\ frame = << >> /\ cmds = << >>

(* C19 - No foreign commands during a drag.  In a frame processed while     *)
(* selection_active is set, every command issued before the frame's         *)
(* mouse-up is a move to hand2's mapped index tip issued by the two-hand    *)
(* drag branch: no click, scroll, key chord or single-hand move.            *)
C19_NoForeignCommandsInDrag ==
    [][ (FrameStep /\ selection_active)
        => \A i \in 1..Len(cmds') :
              Count("mouseUp", SubSeq(cmds', 1, i - 1)) = 0
                 => \/ cmds'[i] = MouseUp
                    \/ /\ DragPose(frame'[1])
                       /\ cmds'[i] = MoveToIndexTip(frame'[1][2]) ]_vars

====
